---- MODULE Spec2Model ----
(***************************************************************************)
(* Model of module-3/streaming_dataset/custom_streaming.py:                *)
(* convert_to_streaming_format (the shard writer and manifest publisher)   *)
(* and CustomStreamingDataset (manifest loader, chunk loader, batch        *)
(* iterator and random accessor), over one dataset directory.              *)
(***************************************************************************)
EXTENDS Integers, Sequences, FiniteSets, TLC

(* ------------------------------ bounds --------------------------------- *)
MaxRows == 3          \* longest source table
MaxChunk == 2         \* largest chunk_size (writer and reader)
MaxBatch == 2         \* largest batch_size
MaxSeed == 5          \* seeds are 0..MaxSeed
MaxConversions == 2   \* convert_to_streaming_format calls in SpecConvert
MaxShuffles == 1      \* shuffled passes begun on one reader instance
MaxPasses == 2        \* shuffled passes begun on the instance of SpecPasses
MaxTemps == 2         \* temporary files counted before the count is capped
MaxClients == 4       \* MinioCrudClient instances calling create_bucket at once

VARIABLES dirExists, dir, conv, nconv, reader, iter, result,
          reader2, iter2, temps,
          buckets, objects, written, mret, calls

vars == <<dirExists, dir, conv, nconv, reader, iter, result,
          reader2, iter2, temps, buckets, objects, written, mret, calls>>

\* a second CustomStreamingDataset instance and its generator
peerVars == <<reader2, iter2>>

\* the MinIO server as MinioCrudClient sees it, the client's last return, and
\* the create_bucket calls that several clients have in progress
minioVars == <<buckets, objects, written, mret, calls>>

\* what neither the converter nor the first reader instance touches
otherVars == <<peerVars, temps, minioVars>>

(* --------------------------- small helpers ----------------------------- *)
Min(a, b) == IF a < b THEN a ELSE b

CeilDiv(a, b) == (a + b - 1) \div b

SeqMin(s) == CHOOSE x \in {s[i] : i \in 1..Len(s)} : \A j \in 1..Len(s) : x <= s[j]

SeqMax(s) == CHOOSE x \in {s[i] : i \in 1..Len(s)} : \A j \in 1..Len(s) : x >= s[j]

\* Python slice s[a:b] of a sequence, 0-based, clipped at len(s)
Slice(s, a, b) == SubSeq(s, a + 1, Min(b, Len(s)))

RECURSIVE Fact(_)
Fact(n) == IF n <= 1 THEN 1 ELSE n * Fact(n - 1)

(* ------------------------------ files ---------------------------------- *)
IndexName == [stem |-> "index", ord |-> 0, ext |-> "json"]

\* f"shard.{i//chunk_size:05d}.parquet"
ShardName(k) == [stem |-> "shard", ord |-> k, ext |-> "parquet"]

\* f"{shard_name}.zstd"
ZstdName(name) == [name EXCEPT !.ext = "parquet.zstd"]

EndsWithZstd(name) == name.ext = "parquet.zstd"

MaxOrd == MaxRows

FileNames == {IndexName} \cup {ShardName(k) : k \in 0..MaxOrd}
                         \cup {ZstdName(ShardName(k)) : k \in 0..MaxOrd}

Absent == [kind |-> "absent"]

\* a file that was opened for writing and not completely written
Partial == [kind |-> "partial"]

\* DataFrame.to_parquet: a complete columnar block holding the rows
Parquet(rows) == [kind |-> "parquet", rows |-> rows]

\* ZstdCompressor.compress of the bytes of a file
Compress(content) == [kind |-> "zstd", data |-> content]

\* json.dump(index)
Json(index) == [kind |-> "json", index |-> index]

(* --------------------------- source tables ----------------------------- *)
\* two source tables, with disjoint rows and different column dtypes
Tables == {1, 2}

\* the rows of table t are distinct from each other and from the other tables'
TableRows(t, n) == [i \in 1..n |-> 10 * t + (i - 1)]

\* the table a row comes from
TableOf(row) == row \div 10

\* pandas dtypes of the columns of table t
TableDtypes(t) ==
    IF t % 2 = 1 THEN <<"int64", "float64", "object">>
                 ELSE <<"bool", "datetime64", "category">>

InputExts == {".csv", ".parquet", ".json", ".txt"}

\* an if-chain without the datetime branch: datetime64 columns fall to 'str'
ColumnType_NoDatetime(dtype) ==
    IF dtype = "int64" THEN "int"
    ELSE IF dtype = "float64" THEN "float"
    ELSE IF dtype = "bool" THEN "bool"
    ELSE "str"

\* the if-chain of convert_to_streaming_format over one column's dtype
ColumnType(dtype) ==
    IF dtype = "int64" THEN "int"
    ELSE IF dtype = "float64" THEN "float"
    ELSE IF dtype = "bool" THEN "bool"
    ELSE IF dtype = "datetime64" THEN "datetime"
    ELSE "str"

ColumnTypes(dtypes) == [j \in 1..Len(dtypes) |-> ColumnType(dtypes[j])]

(* ------------------------------ Init ----------------------------------- *)
NoConv == [pc |-> "idle", rows |-> <<>>, dtypes |-> <<>>, columns |-> <<>>,
           chunk_size |-> 1,
           compression |-> "none", i |-> 0, shards |-> <<>>, failedAt |-> "none"]

NoReader == [state |-> "none", length |-> 0, columns |-> <<>>, shards |-> <<>>,
             chunk_size |-> 1, batch_size |-> 1, shuffle |-> FALSE, seed |-> 0,
             rng |-> 0]

NoIter == [pc |-> "none", indices |-> <<>>, chunk_start |-> 0,
           chunk_indices |-> <<>>, chunk_data |-> <<>>, batch_start |-> 0,
           out |-> <<>>, sel |-> <<>>]

NoResult == [op |-> "none", arg |-> 0, arg2 |-> 0, status |-> "none",
             rows |-> <<>>, loads |-> 0]

(* --------------------------- MinIO server ------------------------------ *)
BucketNames == {"streaming"}

ObjectNames == {"index.json", "shard"}

ObjectKeys == BucketNames \X ObjectNames

\* the data a caller hands to upload_object: a str (its code points), bytes,
\* or an open binary file (its bytes and the position its cursor is at)
Payloads ==
    [type : {"str"}, val : {<<97>>, <<233, 97>>}, pos : {0}]
    \cup [type : {"bytes"}, val : {<<97>>, <<195, 169, 97>>}, pos : {0}]
    \cup [type : {"file"}, val : {<<7, 8>>}, pos : {0, 1}]

NoPayload == [type |-> "none", val |-> <<>>, pos |-> 0]

\* what is known of the last successful write under a name: the data, the
\* method that wrote it, and whether an object was there before
NoWrite == [data |-> NoPayload, op |-> "none", replaced |-> FALSE]

NoKey == <<"none", "none">>

NoMret == [op |-> "none", key |-> NoKey, status |-> "none", bytes |-> <<>>]

\* the MinioCrudClient instances that call create_bucket concurrently
Clients == 1..MaxClients

\* a create_bucket call that has not begun
NoCall == [pc |-> "idle", ret |-> "none"]

(* ------------------------------ Init ----------------------------------- *)
Init ==
    /\ dirExists = FALSE
    /\ dir = [f \in FileNames |-> Absent]
    /\ conv = NoConv
    /\ nconv = 0
    /\ reader = NoReader
    /\ iter = NoIter
    /\ result = NoResult
    /\ reader2 = NoReader
    /\ iter2 = NoIter
    /\ temps = 0
    /\ buckets = {}
    /\ objects = {}
    /\ written = [k \in ObjectKeys |-> NoWrite]
    /\ mret = NoMret
    /\ calls = [c \in Clients |-> NoCall]

(* ------------------- convert_to_streaming_format ----------------------- *)
readerVars == <<reader, iter, result>>

\* the call: os.makedirs, load the input, infer the column types
ConvertStart(limit) ==
    /\ conv.pc \in {"idle", "done", "failed"}
    /\ nconv < limit
    /\ \E ext \in InputExts, t \in Tables, n \in 0..MaxRows,
          c \in 1..MaxChunk, comp \in {"zstd", "none"} :
         /\ dirExists' = TRUE
         /\ nconv' = nconv + 1
         /\ IF ext \in {".csv", ".parquet", ".json"}
            THEN conv' = [pc |-> "loop", rows |-> TableRows(t, n),
                          dtypes |-> TableDtypes(t),
                          columns |-> ColumnTypes(TableDtypes(t)),
                          chunk_size |-> c, compression |-> comp, i |-> 0,
                          shards |-> <<>>, failedAt |-> "none"]
            ELSE conv' = [NoConv EXCEPT !.pc = "failed", !.failedAt = "load",
                                        !.chunk_size = c, !.compression = comp]
    /\ UNCHANGED <<dir, readerVars, otherVars>>

\* a writer that cuts every window one row short: df.iloc[i:i+chunk_size-1]
ShardRows_OneShort(rows, i, c) == Slice(rows, i, i + c - 1)

\* df.iloc[i:i+chunk_size]
ShardRows(rows, i, c) == Slice(rows, i, i + c)

\* a writer that stores each window in reverse order
WriteShard_Reversed ==
    /\ conv.pc = "loop"
    /\ conv.i < Len(conv.rows)
    /\ LET shard_name == ShardName(conv.i \div conv.chunk_size)
           shard_df == ShardRows(conv.rows, conv.i, conv.chunk_size)
           reversed == [j \in 1..Len(shard_df) |-> shard_df[Len(shard_df) + 1 - j]]
       IN /\ dir' = [dir EXCEPT ![shard_name] = Parquet(reversed)]
          /\ IF conv.compression = "zstd"
             THEN conv' = [conv EXCEPT !.pc = "compress"]
             ELSE conv' = [conv EXCEPT !.pc = "loop",
                                       !.shards = Append(@, shard_name),
                                       !.i = @ + conv.chunk_size]
    /\ UNCHANGED <<dirExists, nconv, readerVars, otherVars>>

\* one pass of the loop body up to and including shard_df.to_parquet
WriteShard ==
    /\ conv.pc = "loop"
    /\ conv.i < Len(conv.rows)
    /\ LET shard_name == ShardName(conv.i \div conv.chunk_size)
           shard_df == ShardRows(conv.rows, conv.i, conv.chunk_size)
       IN /\ dir' = [dir EXCEPT ![shard_name] = Parquet(shard_df)]
          /\ IF conv.compression = "zstd"
             THEN conv' = [conv EXCEPT !.pc = "compress"]
             ELSE conv' = [conv EXCEPT !.pc = "loop",
                                       !.shards = Append(@, shard_name),
                                       !.i = @ + conv.chunk_size]
    /\ UNCHANGED <<dirExists, nconv, readerVars, otherVars>>

\* to_parquet raises: the shard file is left untouched or incomplete
WriteShardFails ==
    /\ conv.pc = "loop"
    /\ conv.i < Len(conv.rows)
    /\ LET shard_name == ShardName(conv.i \div conv.chunk_size)
       IN \E left \in {dir[shard_name], Partial} :
            dir' = [dir EXCEPT ![shard_name] = left]
    /\ conv' = [conv EXCEPT !.pc = "failed", !.failedAt = "write"]
    /\ UNCHANGED <<dirExists, nconv, readerVars, otherVars>>

\* open(shard_path) / open(shard_path + ".zstd", "wb") / compress / write
CompressShard ==
    /\ conv.pc = "compress"
    /\ LET shard_name == ShardName(conv.i \div conv.chunk_size)
       IN dir' = [dir EXCEPT ![ZstdName(shard_name)] = Compress(dir[shard_name])]
    /\ conv' = [conv EXCEPT !.pc = "remove"]
    /\ UNCHANGED <<dirExists, nconv, readerVars, otherVars>>

\* the compression step raises after the .zstd file was opened with "wb"
CompressShardFails ==
    /\ conv.pc = "compress"
    /\ LET shard_name == ShardName(conv.i \div conv.chunk_size)
       IN dir' = [dir EXCEPT ![ZstdName(shard_name)] = Partial]
    /\ conv' = [conv EXCEPT !.pc = "failed", !.failedAt = "compress"]
    /\ UNCHANGED <<dirExists, nconv, readerVars, otherVars>>

\* a compression step without its os.remove: the .parquet file stays
RemoveUncompressed_KeepsFile ==
    /\ conv.pc = "remove"
    /\ LET shard_name == ShardName(conv.i \div conv.chunk_size)
       IN conv' = [conv EXCEPT !.pc = "loop",
                               !.shards = Append(@, ZstdName(shard_name)),
                               !.i = @ + conv.chunk_size]
    /\ UNCHANGED <<dirExists, dir, nconv, readerVars, otherVars>>

\* os.remove(shard_path); shard_name gets the suffix; shards.append
RemoveUncompressed ==
    /\ conv.pc = "remove"
    /\ LET shard_name == ShardName(conv.i \div conv.chunk_size)
       IN /\ dir' = [dir EXCEPT ![shard_name] = Absent]
          /\ conv' = [conv EXCEPT !.pc = "loop",
                                  !.shards = Append(@, ZstdName(shard_name)),
                                  !.i = @ + conv.chunk_size]
    /\ UNCHANGED <<dirExists, nconv, readerVars, otherVars>>

\* os.remove raises
RemoveUncompressedFails ==
    /\ conv.pc = "remove"
    /\ conv' = [conv EXCEPT !.pc = "failed", !.failedAt = "remove"]
    /\ UNCHANGED <<dirExists, dir, nconv, readerVars, otherVars>>

\* the index dictionary built after the loop
BuildIndex(c) == [samples |-> Len(c.rows), columns |-> c.columns, shards |-> c.shards]

\* the loop is over: open(index.json, "w") truncates the file
OpenIndex ==
    /\ conv.pc = "loop"
    /\ conv.i >= Len(conv.rows)
    /\ dir' = [dir EXCEPT ![IndexName] = Partial]
    /\ conv' = [conv EXCEPT !.pc = "dump"]
    /\ UNCHANGED <<dirExists, nconv, readerVars, otherVars>>

\* open(index.json, "w") raises
OpenIndexFails ==
    /\ conv.pc = "loop"
    /\ conv.i >= Len(conv.rows)
    /\ conv' = [conv EXCEPT !.pc = "failed", !.failedAt = "index"]
    /\ UNCHANGED <<dirExists, dir, nconv, readerVars, otherVars>>

\* json.dump(index, f) and the close of the file
DumpIndex ==
    /\ conv.pc = "dump"
    /\ dir' = [dir EXCEPT ![IndexName] = Json(BuildIndex(conv))]
    /\ conv' = [conv EXCEPT !.pc = "done"]
    /\ UNCHANGED <<dirExists, nconv, readerVars, otherVars>>

\* json.dump raises: index.json stays incomplete
DumpIndexFails ==
    /\ conv.pc = "dump"
    /\ conv' = [conv EXCEPT !.pc = "failed", !.failedAt = "index"]
    /\ UNCHANGED <<dirExists, dir, nconv, readerVars, otherVars>>

ConvertAgain == ConvertStart(MaxConversions)

NextConvert ==
    \/ ConvertAgain
    \/ WriteShard \/ WriteShardFails
    \/ CompressShard \/ CompressShardFails
    \/ RemoveUncompressed \/ RemoveUncompressedFails
    \/ OpenIndex \/ OpenIndexFails
    \/ DumpIndex \/ DumpIndexFails

SpecConvert == Init /\ [][NextConvert]_vars

(* ----------------------- CustomStreamingDataset ------------------------ *)
convVars == <<dirExists, dir, conv, nconv>>

\* list(range(n))
Range(n) == [i \in 1..n |-> i - 1]

\* s without its p-th element
RemoveAt(s, p) == SubSeq(s, 1, p - 1) \o SubSeq(s, p + 1, Len(s))

\* the k-th arrangement of the sequence avail, in lexicographic order
RECURSIVE Unrank(_, _)
Unrank(k, avail) ==
    IF Len(avail) = 0 THEN <<>>
    ELSE LET f == Fact(Len(avail) - 1)
             p == (k \div f) + 1
         IN <<avail[p]>> \o Unrank(k % f, RemoveAt(avail, p))

\* self.rng.shuffle(indices): the arrangement is a function of the seed given to
\* random.Random and of the number of shuffles the generator has done before
Shuffle(seed, count, indices) ==
    Unrank((seed + count) % Fact(Len(indices)), indices)

\* pd.read_parquet of the content of a file
ReadParquet(content) ==
    IF content.kind = "parquet" THEN [ok |-> TRUE, err |-> "none", rows |-> content.rows]
    ELSE IF content.kind = "absent"
         THEN [ok |-> FALSE, err |-> "FileNotFoundError", rows |-> <<>>]
         ELSE [ok |-> FALSE, err |-> "ArrowInvalid", rows |-> <<>>]

\* a zstd branch that hands the compressed bytes to pd.read_parquet
ReadZstd_NoDecompress(content) == ReadParquet(content)

\* ZstdDecompressor.decompress(f_in.read()), then pd.read_parquet of the
\* temporary file that receives the decompressed bytes
ReadZstd(content) ==
    IF content.kind = "zstd" THEN ReadParquet(content.data)
    ELSE IF content.kind = "absent"
         THEN [ok |-> FALSE, err |-> "FileNotFoundError", rows |-> <<>>]
         ELSE [ok |-> FALSE, err |-> "ZstdError", rows |-> <<>>]

\* the shard _load_chunk resolves for a range of global indices
ChunkShard(r, start_idx, end_idx) == r.shards[1]

\* _load_chunk(start_idx, end_idx), custom_streaming branch
LoadChunk(r, d, start_idx, end_idx) ==
    IF Len(r.shards) = 0
    THEN [ok |-> FALSE, err |-> "IndexError", rows |-> <<>>]
    ELSE LET shard_path == ChunkShard(r, start_idx, end_idx)
         IN IF EndsWithZstd(shard_path) THEN ReadZstd(d[shard_path])
                                        ELSE ReadParquet(d[shard_path])

\* a lookup that applies the positions as a mask: the selected rows come back
\* in the order of the frame, not in the order of the positions
Iloc_AsMask(chunk_data, positions) ==
    LET chosen == {positions[j] : j \in 1..Len(positions)}
        nth(j) == CHOOSE p \in chosen : Cardinality({q \in chosen : q < p}) = j - 1
    IN [j \in 1..Len(positions) |-> chunk_data[nth(j) + 1]]

\* chunk_data[col].iloc[positions].values for every column
Iloc(chunk_data, positions) ==
    [j \in 1..Len(positions) |-> chunk_data[positions[j] + 1]]

IlocInBounds(chunk_data, positions) ==
    \A j \in 1..Len(positions) : positions[j] < Len(chunk_data)

Ret(op, arg, arg2, status, rows, loads) ==
    [op |-> op, arg |-> arg, arg2 |-> arg2, status |-> status, rows |-> rows,
     loads |-> loads]

\* dict.get(key, default) on a parsed JSON object
Get(index, key, default) == IF key \in DOMAIN index THEN index[key] ELSE default

\* CustomStreamingDataset(data_path, batch_size, shuffle, seed, chunk_size), with
\* data_path the dataset directory; one instance is constructed.  seed = None
\* draws the seed at random, which is the same choice over the seeds.  The seed
\* only ever reaches rng.shuffle, so it is recorded as 0 when shuffle is off.
ReaderOpen ==
    /\ reader.state = "none"
    /\ \E bs \in 1..MaxBatch, sh \in BOOLEAN, seed \in 0..MaxSeed, cs \in 1..MaxChunk :
         IF ~dirExists \/ dir[IndexName].kind = "absent"
         THEN /\ result' = Ret("open", 0, 0, "ValueError", <<>>, 0)
              /\ UNCHANGED reader
         ELSE IF dir[IndexName].kind # "json"
         THEN /\ result' = Ret("open", 0, 0, "JSONDecodeError", <<>>, 0)
              /\ UNCHANGED reader
         ELSE /\ reader' = [state |-> "open",
                            length |-> Get(dir[IndexName].index, "samples", 0),
                            columns |-> Get(dir[IndexName].index, "columns", <<>>),
                            shards |-> Get(dir[IndexName].index, "shards", <<>>),
                            chunk_size |-> cs, batch_size |-> bs, shuffle |-> sh,
                            seed |-> IF sh THEN seed ELSE 0, rng |-> 0]
              /\ result' = Ret("open", 0, 0, "ok", <<>>, 0)
    /\ UNCHANGED <<convVars, otherVars, iter>>

\* a bounds check that lets idx = length through: idx < 0 or idx > self.length
OutOfRange_Inclusive(idx, length) == idx < 0 \/ idx > length

\* the bounds check that opens __getitem__
OutOfRange(idx, length) == idx < 0 \/ idx >= length

\* what __getitem__(idx) does on instance r over directory d: the raised
\* error or the returned sample
GetItemResult(r, d, idx) ==
    IF OutOfRange(idx, r.length)
    THEN Ret("getitem", idx, 0, "IndexError", <<>>, 0)
    ELSE LET chunk_start == (idx \div r.chunk_size) * r.chunk_size
             chunk_end == Min(chunk_start + r.chunk_size, r.length)
             chunk == LoadChunk(r, d, chunk_start, chunk_end)
         IN IF ~chunk.ok
            THEN Ret("getitem", idx, 0, chunk.err, <<>>, 1)
            ELSE IF ~IlocInBounds(chunk.rows, <<idx - chunk_start>>)
            THEN Ret("getitem", idx, 0, "IndexError", <<>>, 1)
            ELSE Ret("getitem", idx, 0, "ok", Iloc(chunk.rows, <<idx - chunk_start>>), 1)

\* the indices __getitem__ is called with
GetItemArgs == -2..(MaxRows + 1)

\* a __getitem__ that keeps its chunk in the slot the running generator reads
GetItem_SharedChunk ==
    /\ reader.state = "open"
    /\ \E idx \in GetItemArgs :
         /\ result' = GetItemResult(reader, dir, idx)
         /\ iter' = [iter EXCEPT !.chunk_data = result'.rows]
    /\ UNCHANGED <<convVars, otherVars, reader>>

\* __getitem__(idx)
GetItem ==
    /\ reader.state = "open"
    /\ \E idx \in GetItemArgs : result' = GetItemResult(reader, dir, idx)
    /\ UNCHANGED <<convVars, otherVars, reader, iter>>

\* a direct call of _load_chunk(start_idx, end_idx)
LoadChunkCall ==
    /\ reader.state = "open"
    /\ \E start_idx \in 0..MaxRows, end_idx \in 1..MaxRows :
         /\ start_idx < end_idx
         /\ end_idx <= reader.length
         /\ LET chunk == LoadChunk(reader, dir, start_idx, end_idx)
            IN result' = Ret("load_chunk", start_idx, end_idx,
                             IF chunk.ok THEN "ok" ELSE chunk.err, chunk.rows, 1)
    /\ UNCHANGED <<convVars, otherVars, reader, iter>>

\* iter(dataset): a generator object whose body has not started; it replaces
\* the generator the caller held before, finished or abandoned
IterCreate ==
    /\ reader.state = "open"
    /\ iter.pc # "created"
    /\ iter' = [NoIter EXCEPT !.pc = "created"]
    /\ result' = Ret("iter", 0, 0, "ok", <<>>, 0)
    /\ UNCHANGED <<convVars, otherVars, reader>>

\* an inner loop whose batches run one position over: batch_end + 1
YieldBatch_OneOver(it, r, batch_start, loads) ==
    LET batch_end == Min(batch_start + r.batch_size + 1, Len(it.chunk_indices))
        batch_indices == Slice(it.chunk_indices, batch_start, batch_end)
    IN IF ~IlocInBounds(it.chunk_data, batch_indices)
       THEN [iter |-> [it EXCEPT !.pc = "failed", !.batch_start = batch_start],
             result |-> Ret("next", 0, 0, "IndexError", <<>>, loads)]
       ELSE [iter |-> [it EXCEPT !.pc = "suspended", !.batch_start = batch_start,
                                 !.out = Append(@, Iloc(it.chunk_data, batch_indices)),
                                 !.sel = Append(@, batch_indices)],
             result |-> Ret("next", 0, 0, "ok", Iloc(it.chunk_data, batch_indices), loads)]

\* the inner loop body at batch_start, up to the yield
YieldBatch(it, r, batch_start, loads) ==
    LET batch_end == Min(batch_start + r.batch_size, Len(it.chunk_indices))
        batch_indices == Slice(it.chunk_indices, batch_start, batch_end)
    IN IF ~IlocInBounds(it.chunk_data, batch_indices)
       THEN [iter |-> [it EXCEPT !.pc = "failed", !.batch_start = batch_start],
             result |-> Ret("next", 0, 0, "IndexError", <<>>, loads)]
       ELSE [iter |-> [it EXCEPT !.pc = "suspended", !.batch_start = batch_start,
                                 !.out = Append(@, Iloc(it.chunk_data, batch_indices)),
                                 !.sel = Append(@, batch_indices)],
             result |-> Ret("next", 0, 0, "ok", Iloc(it.chunk_data, batch_indices), loads)]

\* the outer loop at chunk_start: the end of the pass, or a chunk load
\* followed by the first batch of the chunk
EnterChunk(it, r, d, chunk_start) ==
    IF chunk_start >= r.length
    THEN [iter |-> [it EXCEPT !.pc = "exhausted", !.chunk_start = chunk_start],
          result |-> Ret("next", 0, 0, "StopIteration", <<>>, 0)]
    ELSE LET chunk_end == Min(chunk_start + r.chunk_size, r.length)
             chunk_indices == Slice(it.indices, chunk_start, chunk_end)
             chunk == LoadChunk(r, d, SeqMin(chunk_indices), SeqMax(chunk_indices) + 1)
         IN IF ~chunk.ok
            THEN [iter |-> [it EXCEPT !.pc = "failed", !.chunk_start = chunk_start,
                                      !.chunk_indices = chunk_indices],
                  result |-> Ret("next", 0, 0, chunk.err, <<>>, 1)]
            ELSE YieldBatch([it EXCEPT !.chunk_start = chunk_start,
                                       !.chunk_indices = chunk_indices,
                                       !.chunk_data = chunk.rows], r, 0, 1)

\* indices = list(range(self.length)), shuffled by self.rng when shuffle is on;
\* count is the number of shuffles self.rng has done before
PassIndices(r, count) ==
    IF r.shuffle THEN Shuffle(r.seed, count, Range(r.length)) ELSE Range(r.length)

\* an inner loop that yields one batch per chunk and moves on, dropping what is
\* left of the chunk
Resume_OneBatchPerChunk(it, r, d) ==
    IF it.pc = "created"
    THEN EnterChunk([it EXCEPT !.indices = PassIndices(r, r.rng)], r, d, 0)
    ELSE EnterChunk(it, r, d, it.chunk_start + r.chunk_size)

\* the body of __iter__ run from where generator it stands to its next yield,
\* its return or the exception that ends it
Resume(it, r, d) ==
    IF it.pc = "created"
    THEN EnterChunk([it EXCEPT !.indices = PassIndices(r, r.rng)], r, d, 0)
    ELSE IF it.batch_start + r.batch_size < Len(it.chunk_indices)
    THEN YieldBatch(it, r, it.batch_start + r.batch_size, 0)
    ELSE EnterChunk(it, r, d, it.chunk_start + r.chunk_size)

\* a generator that reshuffles on every pull
RngAfter_EveryPull(it, r) ==
    IF r.shuffle /\ r.rng < MaxPasses THEN [r EXCEPT !.rng = @ + 1] ELSE r

\* self.rng after a pull: the first pull of a shuffled pass draws from it
RngAfter(it, r) ==
    IF it.pc = "created" /\ r.shuffle THEN [r EXCEPT !.rng = @ + 1] ELSE r

\* next(generator): run the body of __iter__ to its next yield; the instance
\* shuffles at most limit times
IterNextUpTo(limit) ==
    /\ reader.state = "open"
    /\ iter.pc \in {"created", "suspended"}
    /\ iter.pc = "created" /\ reader.shuffle => reader.rng < limit
    /\ LET step == Resume(iter, reader, dir)
       IN /\ iter' = step.iter
          /\ result' = step.result
    /\ reader' = RngAfter(iter, reader)
    /\ UNCHANGED <<convVars, otherVars>>

IterNext == IterNextUpTo(MaxShuffles)

ConvertOnce == ConvertStart(1)

Next ==
    \/ ConvertOnce
    \/ WriteShard \/ WriteShardFails
    \/ CompressShard \/ CompressShardFails
    \/ RemoveUncompressed \/ RemoveUncompressedFails
    \/ OpenIndex \/ OpenIndexFails
    \/ DumpIndex \/ DumpIndexFails
    \/ ReaderOpen \/ GetItem \/ LoadChunkCall
    \/ IterCreate \/ IterNext

Spec == Init /\ [][Next]_vars

(* ------------------- a second instance, same directory ----------------- *)
\* a constructor that draws self.seed at random whatever seed it is given
PeerOpen_FreshSeed ==
    /\ reader.state = "open"
    /\ reader2.state = "none"
    /\ dirExists /\ dir[IndexName].kind = "json"
    /\ \E seed \in 0..MaxSeed :
         reader2' = [state |-> "open",
                     length |-> Get(dir[IndexName].index, "samples", 0),
                     columns |-> Get(dir[IndexName].index, "columns", <<>>),
                     shards |-> Get(dir[IndexName].index, "shards", <<>>),
                     chunk_size |-> reader.chunk_size,
                     batch_size |-> reader.batch_size,
                     shuffle |-> reader.shuffle,
                     seed |-> seed, rng |-> 0]
    /\ result' = Ret("peer_open", 0, 0, "ok", <<>>, 0)
    /\ UNCHANGED <<convVars, reader, iter, iter2, temps, minioVars>>

\* a second CustomStreamingDataset(data_path, batch_size, shuffle, seed,
\* chunk_size) over the directory the first instance was opened on; the caller
\* passes the arguments it passed to the first instance
PeerOpen ==
    /\ reader.state = "open"
    /\ reader2.state = "none"
    /\ IF ~dirExists \/ dir[IndexName].kind = "absent"
       THEN /\ result' = Ret("peer_open", 0, 0, "ValueError", <<>>, 0)
            /\ UNCHANGED reader2
       ELSE IF dir[IndexName].kind # "json"
       THEN /\ result' = Ret("peer_open", 0, 0, "JSONDecodeError", <<>>, 0)
            /\ UNCHANGED reader2
       ELSE /\ reader2' = [state |-> "open",
                           length |-> Get(dir[IndexName].index, "samples", 0),
                           columns |-> Get(dir[IndexName].index, "columns", <<>>),
                           shards |-> Get(dir[IndexName].index, "shards", <<>>),
                           chunk_size |-> reader.chunk_size,
                           batch_size |-> reader.batch_size,
                           shuffle |-> reader.shuffle,
                           seed |-> reader.seed, rng |-> 0]
            /\ result' = Ret("peer_open", 0, 0, "ok", <<>>, 0)
    /\ UNCHANGED <<convVars, reader, iter, iter2, temps, minioVars>>

\* iter(dataset) on the second instance
PeerIterCreate ==
    /\ reader2.state = "open"
    /\ iter2.pc # "created"
    /\ iter2' = [NoIter EXCEPT !.pc = "created"]
    /\ UNCHANGED <<convVars, readerVars, reader2, temps, minioVars>>

\* a second instance that shuffles with a generator shared with the first one:
\* its arrangement depends on the shuffles the first instance has done
PeerIterNext_SharedRandom ==
    /\ reader2.state = "open"
    /\ iter2.pc \in {"created", "suspended"}
    /\ iter2.pc = "created" /\ reader2.shuffle => reader2.rng < MaxShuffles
    /\ iter2' = Resume(iter2, [reader2 EXCEPT !.rng = @ + reader.rng], dir).iter
    /\ reader2' = RngAfter(iter2, reader2)
    /\ UNCHANGED <<convVars, readerVars, temps, minioVars>>

\* next(generator) on the generator of the second instance; what the pull
\* yields is the last element of iter2.out, how it ended is iter2.pc
PeerIterNext ==
    /\ reader2.state = "open"
    /\ iter2.pc \in {"created", "suspended"}
    /\ iter2.pc = "created" /\ reader2.shuffle => reader2.rng < MaxShuffles
    /\ iter2' = Resume(iter2, reader2, dir).iter
    /\ reader2' = RngAfter(iter2, reader2)
    /\ UNCHANGED <<convVars, readerVars, temps, minioVars>>

\* one conversion that meets no I/O failure, and two instances over its output
NextPair ==
    \/ ConvertOnce
    \/ WriteShard \/ CompressShard \/ RemoveUncompressed
    \/ OpenIndex \/ DumpIndex
    \/ ReaderOpen \/ IterCreate \/ IterNext
    \/ PeerOpen \/ PeerIterCreate \/ PeerIterNext

SpecPair == Init /\ [][NextPair]_vars

(* ------------- a second generator on the same instance ----------------- *)
\* iter(dataset) called again while the caller keeps the generator it holds:
\* the instance now has two generator objects, iter and iter2
SecondIterCreate ==
    /\ reader.state = "open"
    /\ reader2.state = "none"
    /\ iter.pc # "none"
    /\ iter2.pc # "created"
    /\ iter2' = [NoIter EXCEPT !.pc = "created"]
    /\ UNCHANGED <<convVars, readerVars, reader2, temps, minioVars>>

\* next() on the second generator: it runs the same __iter__ body on the same
\* instance, so its first pull draws from the same self.rng
SecondIterNext ==
    /\ reader.state = "open"
    /\ reader2.state = "none"
    /\ iter2.pc \in {"created", "suspended"}
    /\ iter2.pc = "created" /\ reader.shuffle => reader.rng < MaxShuffles
    /\ iter2' = Resume(iter2, reader, dir).iter
    /\ reader' = RngAfter(iter2, reader)
    /\ UNCHANGED <<convVars, iter, result, reader2, temps, minioVars>>

\* one conversion that meets no I/O failure, and one instance over its output
\* iterated by two generators
NextRestart ==
    \/ ConvertOnce
    \/ WriteShard \/ CompressShard \/ RemoveUncompressed
    \/ OpenIndex \/ DumpIndex
    \/ ReaderOpen \/ IterCreate \/ IterNext
    \/ SecondIterCreate \/ SecondIterNext

SpecRestart == Init /\ [][NextRestart]_vars

(* ------------------ several shuffled passes, one instance --------------- *)
\* one conversion that meets no I/O failure and one instance over its output,
\* iterated again and again, with __getitem__ calls in between
NextPasses ==
    \/ ConvertOnce
    \/ WriteShard \/ CompressShard \/ RemoveUncompressed
    \/ OpenIndex \/ DumpIndex
    \/ ReaderOpen \/ GetItem
    \/ IterCreate \/ IterNextUpTo(MaxPasses)

SpecPasses == Init /\ [][NextPasses]_vars

(* ---------------- reads that fail after the temporary file -------------- *)
\* _load_chunk on instance r reaches NamedTemporaryFile(delete=False): the
\* first shard is a .zstd file that opened and decompressed
TempCreated(r, d) ==
    /\ Len(r.shards) > 0
    /\ EndsWithZstd(r.shards[1])
    /\ d[r.shards[1]].kind = "zstd"

\* the generator's next pull calls _load_chunk
PullLoadsChunk(it, r) ==
    \/ it.pc = "created" /\ r.length > 0
    \/ /\ it.pc = "suspended"
       /\ it.batch_start + r.batch_size >= Len(it.chunk_indices)
       /\ it.chunk_start + r.chunk_size < r.length

\* __getitem__(idx) whose _load_chunk raises between the creation of the
\* temporary file and os.unlink: f_out.write or pd.read_parquet(temp_path)
\* meets an I/O error.  Nothing catches it, the file stays.
GetItemTempFails ==
    /\ reader.state = "open"
    /\ TempCreated(reader, dir)
    /\ temps < MaxTemps
    /\ \E idx \in GetItemArgs :
         /\ ~OutOfRange(idx, reader.length)
         /\ result' = Ret("getitem", idx, 0, "OSError", <<>>, 1)
    /\ temps' = temps + 1
    /\ UNCHANGED <<convVars, reader, iter, peerVars, minioVars>>

\* next(generator) whose _load_chunk raises in the same place: the exception
\* ends the generator
IterNextTempFails ==
    /\ reader.state = "open"
    /\ iter.pc \in {"created", "suspended"}
    /\ iter.pc = "created" /\ reader.shuffle => reader.rng < MaxShuffles
    /\ PullLoadsChunk(iter, reader)
    /\ TempCreated(reader, dir)
    /\ temps < MaxTemps
    /\ iter' = [iter EXCEPT !.pc = "failed",
                            !.indices = IF iter.pc = "created"
                                        THEN PassIndices(reader, reader.rng) ELSE @]
    /\ result' = Ret("next", 0, 0, "OSError", <<>>, 1)
    /\ reader' = RngAfter(iter, reader)
    /\ temps' = temps + 1
    /\ UNCHANGED <<convVars, peerVars, minioVars>>

\* one conversion that meets no I/O failure, and a reader whose shard reads
\* may fail after the temporary file was created
NextFaults ==
    \/ ConvertOnce
    \/ WriteShard \/ CompressShard \/ RemoveUncompressed
    \/ OpenIndex \/ DumpIndex
    \/ ReaderOpen \/ GetItem \/ GetItemTempFails
    \/ IterCreate \/ IterNext \/ IterNextTempFails

SpecFaults == Init /\ [][NextFaults]_vars

(* ------------------ a manifest the converter did not write ------------- *)
IndexFields == {"samples", "columns", "shards"}

\* the JSON object index without the fields outside keep
Restrict(index, keep) == [f \in DOMAIN index \cap keep |-> index[f]]

\* the directory handed to the constructor holds an index.json that is a JSON
\* object without some of the fields convert_to_streaming_format writes: an
\* index.json written by another tool (the MDSWriter of convert_dataset.py
\* writes its own into its output directory) or edited by hand
ForeignIndex ==
    /\ reader.state = "none"
    /\ dirExists
    /\ dir[IndexName].kind = "json"
    /\ IndexFields \subseteq DOMAIN dir[IndexName].index
    /\ \E keep \in (SUBSET IndexFields) \ {IndexFields} :
         dir' = [dir EXCEPT ![IndexName] = Json(Restrict(dir[IndexName].index, keep))]
    /\ UNCHANGED <<dirExists, conv, nconv, readerVars, otherVars>>

\* one conversion that meets no I/O failure, a manifest that may lose fields,
\* and a reader
NextForeign ==
    \/ ConvertOnce
    \/ WriteShard \/ CompressShard \/ RemoveUncompressed
    \/ OpenIndex \/ DumpIndex
    \/ ForeignIndex
    \/ ReaderOpen \/ GetItem \/ IterCreate \/ IterNext

SpecForeign == Init /\ [][NextForeign]_vars

(* ------------- conversions into a directory that is being read -------- *)
\* repeated conversions that meet no I/O failure into the same directory (the
\* example script converts into its default directory on every run), and a
\* reader opened on that directory at any moment
NextReuse ==
    \/ ConvertAgain
    \/ WriteShard \/ CompressShard \/ RemoveUncompressed
    \/ OpenIndex \/ DumpIndex
    \/ ReaderOpen \/ GetItem

SpecReuse == Init /\ [][NextReuse]_vars

(* --------------------------- MinioCrudClient --------------------------- *)
\* str.encode("utf-8") of a sequence of code points below 2048
RECURSIVE Utf8Encode(_)
Utf8Encode(cps) ==
    IF Len(cps) = 0 THEN <<>>
    ELSE LET c == Head(cps)
         IN (IF c < 128 THEN <<c>> ELSE <<192 + (c \div 64), 128 + (c % 64)>>)
            \o Utf8Encode(Tail(cps))

\* the bytes upload_object hands to put_object: a str is encoded, bytes are
\* wrapped as they are, a file is measured by seek(0, SEEK_END)/tell() and
\* rewound with seek(0), so it is sent whole wherever its cursor was
UploadBytes(data) ==
    IF data.type = "str" THEN Utf8Encode(data.val) ELSE data.val

\* the objects the server holds under key
StoredAt(objs, key) == {o \in objs : o.key = key}

\* a server on which a put under an existing name adds a second object
PutObject_Append(objs, key, bytes) ==
    objs \cup {[key |-> key, bytes |-> bytes]}

\* self.client.put_object on a bucket without versioning: the object stored
\* under the name is replaced
PutObject(objs, key, bytes) ==
    (objs \ StoredAt(objs, key)) \cup {[key |-> key, bytes |-> bytes]}

MRet(op, key, status, bytes) == [op |-> op, key |-> key, status |-> status, bytes |-> bytes]

\* upload_object(bucket_name, object_name, data) that meets no S3Error: the
\* bucket is made when it does not exist, then the object is put
Upload(op) ==
    \E key \in ObjectKeys, data \in Payloads :
        /\ buckets' = buckets \cup {key[1]}
        /\ objects' = PutObject(objects, key, UploadBytes(data))
        /\ written' = [written EXCEPT ![key] =
                           [data |-> data, op |-> op,
                            replaced |-> StoredAt(objects, key) # {}]]
        /\ mret' = MRet(op, key, "ok", <<>>)
        /\ UNCHANGED <<convVars, readerVars, peerVars, temps, calls>>

UploadObject == Upload("upload")

\* update_object: return self.upload_object(...)
UpdateObject == Upload("update")

\* upload_object that raises S3Error: from bucket_exists or make_bucket, or
\* from put_object after the bucket was made; no object is stored
UploadObjectFails ==
    \E key \in ObjectKeys, made \in BOOLEAN :
        /\ buckets' = IF made THEN buckets \cup {key[1]} ELSE buckets
        /\ mret' = MRet("upload", key, "S3Error", <<>>)
        /\ UNCHANGED <<objects, written, convVars, readerVars, peerVars, temps, calls>>

\* download_object(bucket_name, object_name): get_object and response.read()
DownloadObject ==
    \E key \in ObjectKeys :
        /\ mret' = IF StoredAt(objects, key) = {}
                   THEN MRet("download", key, "S3Error", <<>>)
                   ELSE MRet("download", key, "ok",
                             (CHOOSE o \in StoredAt(objects, key) : TRUE).bytes)
        /\ UNCHANGED <<buckets, objects, written, convVars, readerVars, peerVars, temps, calls>>

\* remove_object(bucket_name, object_name): False when stat_object finds no
\* such key, else the object is removed
RemoveObject ==
    \E key \in ObjectKeys :
        /\ key[1] \in buckets
        /\ IF StoredAt(objects, key) = {}
           THEN /\ mret' = MRet("remove", key, "False", <<>>)
                /\ UNCHANGED <<objects, written>>
           ELSE /\ objects' = objects \ StoredAt(objects, key)
                /\ written' = [written EXCEPT ![key] = NoWrite]
                /\ mret' = MRet("remove", key, "True", <<>>)
        /\ UNCHANGED <<buckets, convVars, readerVars, peerVars, temps, calls>>

\* the objects the server holds in bucket b
InBucket(objs, b) == {o \in objs : o.key[1] = b}

\* a make_bucket the server acknowledges and does not keep
MakeBucket_Lost(bs, b) == bs

\* self.client.make_bucket(bucket_name)
MakeBucket(bs, b) == bs \cup {b}

\* create_bucket(bucket_name): bucket_exists, then make_bucket and True, or
\* False when the bucket is there
CreateBucket ==
    \E b \in BucketNames :
        /\ IF b \notin buckets
           THEN /\ buckets' = MakeBucket(buckets, b)
                /\ mret' = MRet("create_bucket", <<b, "none">>, "True", <<>>)
           ELSE /\ mret' = MRet("create_bucket", <<b, "none">>, "False", <<>>)
                /\ UNCHANGED buckets
        /\ UNCHANGED <<objects, written, convVars, readerVars, peerVars, temps, calls>>

\* bucket_exists(bucket_name)
BucketExists ==
    \E b \in BucketNames :
        /\ mret' = MRet("bucket_exists", <<b, "none">>,
                        IF b \in buckets THEN "True" ELSE "False", <<>>)
        /\ UNCHANGED <<buckets, objects, written, convVars, readerVars, peerVars, temps, calls>>

\* remove_bucket(bucket_name, force): False when the bucket is not there; with
\* force the objects of the bucket are removed first; client.remove_bucket on
\* a bucket that still holds objects raises S3Error (BucketNotEmpty)
RemoveBucket ==
    \E b \in BucketNames, force \in BOOLEAN :
        LET op == IF force THEN "remove_bucket_force" ELSE "remove_bucket"
        IN /\ IF b \notin buckets
              THEN /\ mret' = MRet(op, <<b, "none">>, "False", <<>>)
                   /\ UNCHANGED <<buckets, objects, written>>
              ELSE IF ~force /\ InBucket(objects, b) # {}
              THEN /\ mret' = MRet(op, <<b, "none">>, "S3Error", <<>>)
                   /\ UNCHANGED <<buckets, objects, written>>
              ELSE /\ objects' = objects \ InBucket(objects, b)
                   /\ written' = [k \in ObjectKeys |->
                                     IF k[1] = b THEN NoWrite ELSE written[k]]
                   /\ buckets' = buckets \ {b}
                   /\ mret' = MRet(op, <<b, "none">>, "True", <<>>)
           /\ UNCHANGED <<convVars, readerVars, peerVars, temps, calls>>

NextMinio ==
    \/ UploadObject \/ UpdateObject \/ UploadObjectFails
    \/ DownloadObject \/ RemoveObject
    \/ CreateBucket \/ BucketExists \/ RemoveBucket

SpecMinio == Init /\ [][NextMinio]_vars

(* ------------- create_bucket called by several clients ----------------- *)
\* the bucket the concurrent calls name
RaceBucket == "streaming"

\* client c begins create_bucket(RaceBucket): self.client.bucket_exists answers;
\* when the bucket is there the call returns False
CallCheck(c) ==
    /\ calls[c].pc = "idle"
    /\ calls' = [calls EXCEPT ![c] =
                    IF RaceBucket \in buckets
                    THEN [pc |-> "returned", ret |-> "False"]
                    ELSE [pc |-> "checked", ret |-> "none"]]
    /\ UNCHANGED <<buckets, objects, written, mret, convVars, readerVars, peerVars, temps>>

\* client c, having seen the bucket absent, reaches self.client.make_bucket:
\* the server creates the bucket and the call returns True, or the bucket is
\* there by now, the server refuses and the S3Error is raised again
CallMake(c) ==
    /\ calls[c].pc = "checked"
    /\ IF RaceBucket \in buckets
       THEN /\ calls' = [calls EXCEPT ![c] = [pc |-> "returned", ret |-> "S3Error"]]
            /\ UNCHANGED buckets
       ELSE /\ calls' = [calls EXCEPT ![c] = [pc |-> "returned", ret |-> "True"]]
            /\ buckets' = MakeBucket(buckets, RaceBucket)
    /\ UNCHANGED <<objects, written, mret, convVars, readerVars, peerVars, temps>>

NextRace ==
    \/ \E c \in Clients : CallCheck(c) \/ CallMake(c)

SpecRace == Init /\ [][NextRace]_vars

(* ======================= properties of the program ===================== *)
RECURSIVE Flatten(_)
Flatten(ss) == IF Len(ss) = 0 THEN <<>> ELSE Head(ss) \o Flatten(Tail(ss))

Elems(s) == {s[i] : i \in 1..Len(s)}

\* the rows held by a complete shard file, <<>> for anything else
FileRows(content) ==
    IF content.kind = "parquet" THEN content.rows
    ELSE IF content.kind = "zstd" /\ content.data.kind = "parquet" THEN content.data.rows
    ELSE <<>>

FileComplete(content) ==
    \/ content.kind = "parquet"
    \/ content.kind = "zstd" /\ content.data.kind = "parquet"

RECURSIVE TotalRows(_, _)
TotalRows(d, names) ==
    IF Len(names) = 0 THEN 0
    ELSE Len(FileRows(d[Head(names)])) + TotalRows(d, Tail(names))

\* the reader was opened with the chunk_size the dataset was written with
SameChunkSize == reader.state = "open" /\ conv.pc = "done"
                 /\ reader.chunk_size = conv.chunk_size

(* C1: for a dataset written with chunk_size c and read with the same
   chunk_size, __getitem__(idx) returns, for every idx in [0, sample_count),
   the row written at global position idx.  The code returns the row at
   offset idx % c of the FIRST shard, so C1_GetItemReturnsWrittenRow is
   violated as soon as idx lies in a later shard. *)
C1_GetItemReturnsWrittenRow ==
    (SameChunkSize /\ result.op = "getitem"
        /\ result.arg >= 0 /\ result.arg < reader.length)
    => (result.status = "ok" /\ result.rows = <<conv.rows[result.arg + 1]>>)

(* C2: with shuffle disabled, a pass of the iterator that has come to its end
   has yielded batches whose concatenation is the table that was converted,
   row for row, and it has ended by exhaustion, not by an error. *)
C2_SequentialRoundTrip ==
    (SameChunkSize /\ ~reader.shuffle /\ iter.pc \in {"exhausted", "failed"})
    => (iter.pc = "exhausted" /\ Flatten(iter.out) = conv.rows)

(* C3: with shuffle enabled, a pass of the iterator that has come to its end
   has yielded every row of the dataset exactly once, and no step failed. *)
C3_ShuffledPassIsPermutation ==
    (SameChunkSize /\ reader.shuffle /\ iter.pc \in {"exhausted", "failed"})
    => (/\ iter.pc = "exhausted"
        /\ Len(Flatten(iter.out)) = Len(conv.rows)
        /\ Elems(Flatten(iter.out)) = Elems(conv.rows))

\* sizes of the batches cut from n positions, batch_size at a time
RECURSIVE CutSizes(_, _)
CutSizes(n, b) == IF n <= 0 THEN <<>> ELSE <<Min(n, b)>> \o CutSizes(n - b, b)

\* sizes of the batches when the n positions are first cut into windows
RECURSIVE WindowedSizes(_, _, _)
WindowedSizes(n, w, b) ==
    IF n <= 0 THEN <<>> ELSE CutSizes(Min(n, w), b) \o WindowedSizes(n - w, w, b)

BatchSizes == [k \in 1..Len(iter.out) |-> Len(iter.out[k])]

IsPrefix(s, t) == Len(s) <= Len(t) /\ s = SubSeq(t, 1, Len(s))

(* C4 as the specification states it: a complete pass yields
   ceil(sample_count / batch_size) batches, each of batch_size rows except
   possibly the last, whatever the chunk_size. *)
C4_BatchesIgnoreChunkSize ==
    (reader.state = "open" /\ iter.pc = "exhausted")
    => BatchSizes = CutSizes(reader.length, reader.batch_size)

(* C4 amended: the iterator cuts the index list into consecutive windows of
   chunk_size positions and every window into batches of at most batch_size;
   the batches yielded so far have the sizes of a prefix of that split, and a
   complete pass has yielded the whole split. *)
C4_BatchesFollowWindows ==
    reader.state = "open"
    => LET split == WindowedSizes(reader.length, reader.chunk_size, reader.batch_size)
       IN /\ IsPrefix(BatchSizes, split)
          /\ iter.pc = "exhausted" => BatchSizes = split

\* a complete pass whose batch count differs from ceil(sample_count / batch_size)
C4_Witness ==
    /\ reader.state = "open" /\ iter.pc = "exhausted"
    /\ reader.length = 2 /\ reader.batch_size = 2 /\ reader.chunk_size = 1
    /\ BatchSizes = <<1, 1>>

ListedShards(d) ==
    IF d[IndexName].kind = "json" THEN Elems(d[IndexName].index.shards) ELSE {}

(* C5: in every state of a conversion, whenever index.json is present and
   readable, every shard file it lists is present and complete, and its
   samples field is the number of rows in those shards (the manifest being
   written once, after the last shard). *)
C5_ManifestDescribesShards ==
    dir[IndexName].kind = "json"
    => (/\ \A f \in ListedShards(dir) : FileComplete(dir[f])
        /\ dir[IndexName].index.samples = TotalRows(dir, dir[IndexName].index.shards))

(* C6: a conversion that failed before its manifest write leaves no
   index.json in the output directory, whatever the directory held before. *)
C6_NoManifestAfterFailure ==
    (conv.pc = "failed" /\ conv.failedAt \in {"load", "write", "compress", "remove"})
    => dir[IndexName].kind = "absent"

(* C7: no step of the program rewrites, truncates or deletes a shard file
   that a published manifest lists. *)
C7_ListedShardsNeverChange ==
    [][\A f \in ListedShards(dir) : dir'[f] = dir[f]]_vars

(* C8: _load_chunk(start, end) with 0 <= start < end <= sample_count returns
   exactly the rows with global indices start .. end - 1, in that order. *)
C8_LoadChunkReturnsRange ==
    (SameChunkSize /\ result.op = "load_chunk")
    => (result.status = "ok"
        /\ result.rows = SubSeq(conv.rows, result.arg + 1, result.arg2))

(* C9: a conversion of sample_count rows with chunk_size c writes
   ceil(sample_count / c) shards; each but the last holds c rows, the last
   holds the remainder, and the row counts add up to sample_count. *)
C9_ShardCountAndSizes ==
    conv.pc \in {"dump", "done"}
    => LET n == Len(conv.rows)
           c == conv.chunk_size
           N == CeilDiv(n, c)
       IN /\ Len(conv.shards) = N
          /\ \A k \in 1..Len(conv.shards) :
               Len(FileRows(dir[conv.shards[k]])) = IF k < N THEN c ELSE n - (N - 1) * c
          /\ TotalRows(dir, conv.shards) = n

\* 3 rows written with chunk_size 2: two shards, of 2 rows and 1 row
C9_Witness ==
    /\ conv.pc = "done" /\ Len(conv.rows) = 3 /\ conv.chunk_size = 2
    /\ Len(conv.shards) = 2
    /\ Len(FileRows(dir[conv.shards[2]])) = 1

(* C10: __getitem__(idx) with idx < 0 or idx >= sample_count raises
   IndexError without loading a chunk and without changing the reader, the
   iterator or the directory. *)
C10_OutOfRangeRaises ==
    [][(GetItem /\ (result'.arg < 0 \/ result'.arg >= reader.length))
       => (/\ result'.status = "IndexError" /\ result'.loads = 0
           /\ reader' = reader /\ iter' = iter /\ dir' = dir)]_vars

\* __getitem__(sample_count) on a dataset that has rows
C10_Witness ==
    /\ reader.state = "open" /\ reader.length > 0
    /\ result.op = "getitem" /\ result.arg = reader.length
    /\ result.status = "IndexError" /\ result.loads = 0

\* a consumer that pulls generator it until the pass ends, nothing in between
RECURSIVE Drain(_, _, _)
Drain(it, r, d) ==
    IF it.pc \in {"created", "suspended"} THEN Drain(Resume(it, r, d).iter, r, d)
    ELSE it

\* instance r as it was when its current pass made its first pull
AtPassStart(r) == IF r.shuffle THEN [r EXCEPT !.rng = @ - 1] ELSE r

\* the batches the current pass of (it, r) yields when nothing is interleaved
UninterruptedPass(it, r, d) ==
    Drain([NoIter EXCEPT !.pc = "created"], AtPassStart(r), d).out

\* C11: __getitem__ is idempotent and leaves iterator state unchanged: a step
\* that changes the instance, the generator or the directory is not a
\* __getitem__ call; no step of an open instance changes what __getitem__(idx)
\* returns for any idx (steps that leave instance and directory as they are
\* cannot); and the batches of a pass that had __getitem__ calls in between its
\* pulls are those of the same pass pulled without interruption.
C11_GetItemIdempotentKeepsIterator ==
    /\ [][~UNCHANGED <<reader, iter, dir>> => ~GetItem]_vars
    /\ [][/\ reader.state = "open" /\ reader'.state = "open"
          /\ ~UNCHANGED <<reader, dir>>
          => \A idx \in GetItemArgs :
                GetItemResult(reader', dir', idx) = GetItemResult(reader, dir, idx)]_vars
    /\ [](iter.pc \in {"suspended", "exhausted", "failed"} =>
            /\ IsPrefix(iter.out, UninterruptedPass(iter, reader, dir))
            /\ iter.pc # "suspended" => iter.out = UninterruptedPass(iter, reader, dir))

\* a __getitem__ has returned a sample between two pulls of a running pass
C11_Witness ==
    /\ result.op = "getitem" /\ result.status = "ok"
    /\ iter.pc = "suspended" /\ Len(iter.out) >= 1
    /\ reader.shuffle

\* the generator has made at least one pull of its pass
Started(it) == it.pc \in {"suspended", "exhausted", "failed"}

\* the pass is over: the generator returned or raised
Finished(it) == it.pc \in {"exhausted", "failed"}

\* C12: seed determinism.  Two instances constructed over the same directory
\* with shuffle on and the same seed, batch_size and chunk_size (PeerOpen passes
\* the first instance's arguments), each on its first pass: they draw the same
\* arrangement of indices, the batches one has yielded so far are a prefix of the
\* other's, and once both passes are over the batch sequences and the way the
\* passes ended are identical.
C12_SeedDeterminism ==
    (/\ reader.state = "open" /\ reader2.state = "open" /\ reader.shuffle
     /\ reader.rng = 1 /\ reader2.rng = 1
     /\ Started(iter) /\ Started(iter2))
    => /\ iter.indices = iter2.indices
       /\ IsPrefix(iter.out, iter2.out) \/ IsPrefix(iter2.out, iter.out)
       /\ Finished(iter) /\ Finished(iter2) =>
              iter.out = iter2.out /\ iter.pc = iter2.pc

\* both instances have finished a shuffled first pass of several batches whose
\* arrangement is not the original order
C12_Witness ==
    /\ reader.state = "open" /\ reader2.state = "open" /\ reader.shuffle
    /\ reader.rng = 1 /\ reader2.rng = 1
    /\ iter.pc = "exhausted" /\ iter2.pc = "exhausted"
    /\ Len(iter.out) >= 2
    /\ iter.indices # Range(reader.length)

\* C13: the temporary file of a .zstd shard read is released on every exit
\* path: whatever __getitem__ calls and pulls have happened, and however each
\* read ended, no temporary file created by the reader exists.
C13_NoTempFileRemains == temps = 0

\* C14: the constructor raises, and no instance exists, when index.json is
\* missing or lacks one of samples, columns, shards: whenever a constructor call
\* returns an instance, the index.json it read has all three fields.
C14_OpenRequiresManifestFields ==
    [][ReaderOpen /\ reader'.state = "open" =>
          /\ dirExists /\ dir[IndexName].kind = "json"
          /\ IndexFields \subseteq DOMAIN dir[IndexName].index]_vars

\* the columns of the DataFrame read from a shard, in the form the manifest
\* records them: those of the table the shard's rows were cut from
ShardSchema(rows) == ColumnTypes(TableDtypes(TableOf(rows[1])))

\* C15: a read from a shard whose columns differ from the columns the instance
\* took from the manifest raises: every sample __getitem__ returns comes from a
\* shard whose columns are the instance's columns.
C15_SchemaMismatchRaises ==
    result.op = "getitem" /\ result.status = "ok" =>
        ShardSchema(result.rows) = reader.columns

\* the name the shard has when compression is 'none'
PlainName(name) == [name EXCEPT !.ext = "parquet"]

\* the directory convert_to_streaming_format leaves for the table and
\* chunk_size of conversion c when called with compression = 'none'
PlainDir(c) ==
    LET names == [k \in 1..CeilDiv(Len(c.rows), c.chunk_size) |-> ShardName(k - 1)]
    IN [f \in FileNames |->
          IF f = IndexName THEN Json(BuildIndex([c EXCEPT !.shards = names]))
          ELSE IF f.ext = "parquet" /\ f.ord < Len(names)
               THEN Parquet(ShardRows(c.rows, f.ord * c.chunk_size, c.chunk_size))
               ELSE Absent]

\* instance r, had it been opened on that directory with the same arguments
PlainReader(r) ==
    [r EXCEPT !.shards = [k \in 1..Len(r.shards) |-> PlainName(r.shards[k])]]

\* a fresh pass of instance r over directory d, pulled to its end, when r.rng
\* has shuffled count times before
FullPass(r, d, count) == Drain([NoIter EXCEPT !.pc = "created"], [r EXCEPT !.rng = count], d)

\* C16: codec transparency.  For a finished conversion and an instance opened
\* on its output: the output of a compression = 'none' conversion is the plain
\* directory; over the output of a compression = 'zstd' conversion every
\* __getitem__(idx) and every pass gives what the same instance gives over the
\* plain directory of the same table and chunk_size (same samples, same
\* batches, same errors, same generator state at the end); the results
\* the instance has returned are those; and the shard names end with .zstd
\* exactly when compression = 'zstd'.
C16_CodecTransparent ==
    conv.pc = "done" /\ reader.state = "open" =>
        LET pr == PlainReader(reader)
            pd == PlainDir(conv)
        IN /\ IF conv.compression = "none"
              THEN dir = pd /\ reader = pr
              ELSE /\ \A idx \in GetItemArgs :
                        GetItemResult(reader, dir, idx) = GetItemResult(pr, pd, idx)
                   /\ \A count \in 0..(MaxShuffles - 1) :
                        FullPass(reader, dir, count) = FullPass(pr, pd, count)
           /\ result.op = "getitem" => result = GetItemResult(pr, pd, result.arg)
           /\ Started(iter) => IsPrefix(iter.out, UninterruptedPass(iter, pr, pd))
           /\ \A k \in 1..Len(reader.shards) :
                 EndsWithZstd(reader.shards[k]) <=> conv.compression = "zstd"
           /\ \A f \in FileNames \ {IndexName} :
                 dir[f].kind # "absent" =>
                     (EndsWithZstd(f) <=> conv.compression = "zstd")

\* a sample and a batch have been read from a zstd-compressed dataset of
\* several shards
C16_Witness ==
    /\ conv.pc = "done" /\ conv.compression = "zstd" /\ Len(conv.shards) >= 2
    /\ reader.state = "open"
    /\ result.op = "getitem" /\ result.status = "ok"
    /\ iter.pc = "suspended" /\ Len(iter.out) >= 1

\* a step of one of the two instances
ReaderStep == ReaderOpen \/ IterCreate \/ IterNext

PeerStep == PeerOpen \/ PeerIterCreate \/ PeerIterNext

\* the pass of generator it of instance r gives what it gives when r is the
\* only instance and nothing runs between its pulls
AsAlone(it, r, d) ==
    Started(it) =>
        /\ IsPrefix(it.out, UninterruptedPass(it, r, d))
        /\ it.indices = PassIndices(AtPassStart(r), AtPassStart(r).rng)
        /\ Finished(it) =>
              /\ it.out = UninterruptedPass(it, r, d)
              /\ it.pc = Drain([NoIter EXCEPT !.pc = "created"], AtPassStart(r), d).pc

\* C17: two instances over the same directory, their steps interleaved in every
\* order and with no lock: a step that creates, changes or removes a file of
\* the directory is not a step of either; a step that changes one instance or
\* its generator is not a step of the other; no step changes what __getitem__
\* of either returns; and each pass yields the batches, and ends the way, it
\* does when its instance runs alone.
C17_ConcurrentReadersIndependent ==
    /\ [][~UNCHANGED <<dirExists, dir>> => ~(ReaderStep \/ PeerStep)]_vars
    /\ [][~UNCHANGED <<reader2, iter2>> => ~ReaderStep]_vars
    /\ [][~UNCHANGED <<reader, iter>> => ~PeerStep]_vars
    /\ [][/\ reader.state = "open" /\ reader2.state = "open"
          /\ ~UNCHANGED <<reader, reader2, dir>>
          => \A idx \in GetItemArgs :
                /\ GetItemResult(reader', dir', idx) = GetItemResult(reader, dir, idx)
                /\ GetItemResult(reader2', dir', idx) = GetItemResult(reader2, dir, idx)]_vars
    /\ [](AsAlone(iter, reader, dir) /\ AsAlone(iter2, reader2, dir))

\* both generators are in the middle of a shuffled pass
C17_Witness ==
    /\ reader.state = "open" /\ reader2.state = "open" /\ reader.shuffle
    /\ iter.pc = "suspended" /\ iter2.pc = "suspended"
    /\ Len(iter.out) >= 1 /\ Len(iter2.out) >= 1
    /\ Len(iter.out) # Len(iter2.out)

\* C18: a pass ends only by exhaustion, once its cursor has reached the sample
\* count: a generator that has ended has returned (it did not raise), its
\* chunk_start has reached self.length, and the batches it yielded consumed
\* every position of the arrangement.
C18_PassEndsOnlyAtSampleCount ==
    reader.state = "open" /\ Finished(iter) =>
        /\ iter.pc = "exhausted"
        /\ iter.chunk_start >= reader.length
        /\ Flatten(iter.sel) = iter.indices

\* the manifest on disk right after the conversion that wrote it returned
WrittenManifest == dir[IndexName].index

\* C19 as stated: the manifest a conversion wrote has one entry per column of
\* the source table, every type is one of int, float, bool, str, a datetime64
\* column is recorded as str, and a column of no classified dtype as str.
C19_ColumnTypesAreFour ==
    conv.pc = "done" =>
        /\ Len(WrittenManifest.columns) = Len(conv.dtypes)
        /\ \A j \in 1..Len(conv.dtypes) :
              /\ WrittenManifest.columns[j] \in {"int", "float", "bool", "str"}
              /\ conv.dtypes[j] = "datetime64" => WrittenManifest.columns[j] = "str"
              /\ conv.dtypes[j] \notin {"int64", "float64", "bool", "datetime64"} =>
                    WrittenManifest.columns[j] = "str"

\* C19, amended: the manifest a conversion wrote has one entry per column of
\* the source table, every type is one of int, float, bool, datetime, str, a
\* datetime64 column is recorded as datetime, int64 as int, float64 as float,
\* bool as bool, and a column of any other dtype as str.
C19_ColumnTypesWithDatetime ==
    conv.pc = "done" =>
        /\ Len(WrittenManifest.columns) = Len(conv.dtypes)
        /\ \A j \in 1..Len(conv.dtypes) :
              /\ WrittenManifest.columns[j] \in {"int", "float", "bool", "datetime", "str"}
              /\ conv.dtypes[j] = "datetime64" => WrittenManifest.columns[j] = "datetime"
              /\ conv.dtypes[j] = "int64" => WrittenManifest.columns[j] = "int"
              /\ conv.dtypes[j] = "float64" => WrittenManifest.columns[j] = "float"
              /\ conv.dtypes[j] = "bool" => WrittenManifest.columns[j] = "bool"
              /\ conv.dtypes[j] \notin {"int64", "float64", "bool", "datetime64"} =>
                    WrittenManifest.columns[j] = "str"

\* a second conversion, of a table with a datetime64 and a category column,
\* has written its manifest
C19_Witness ==
    /\ conv.pc = "done" /\ nconv = 2
    /\ \E j \in 1..Len(conv.dtypes) : conv.dtypes[j] = "datetime64"
    /\ \E j \in 1..Len(conv.dtypes) : conv.dtypes[j] = "category"
    /\ Len(WrittenManifest.shards) >= 2

\* bytes.decode("utf-8") of a well-formed encoding of code points below 2048
RECURSIVE Utf8Decode(_)
Utf8Decode(bs) ==
    IF Len(bs) = 0 THEN <<>>
    ELSE IF Head(bs) < 128 THEN <<Head(bs)>> \o Utf8Decode(Tail(bs))
    ELSE <<(Head(bs) - 192) * 64 + (bs[2] - 128)>> \o Utf8Decode(Tail(Tail(bs)))

\* C20: last write wins, with faithful read-back.  Under every (bucket,
\* object) that was written and not removed since, the server holds exactly one
\* object, its bytes are those of the most recent successful upload_object or
\* update_object; a download_object of it returns exactly these bytes, which
\* decode to the written text when a str was written; and a download of a name
\* never written (or removed) raises.
C20_LastWriteWins ==
    /\ \A key \in ObjectKeys :
          IF written[key] = NoWrite
          THEN StoredAt(objects, key) = {}
          ELSE StoredAt(objects, key) =
                   {[key |-> key, bytes |-> UploadBytes(written[key].data)]}
    /\ mret.op = "download" =>
          LET last == written[mret.key]
          IN IF last = NoWrite
             THEN mret.status = "S3Error"
             ELSE /\ mret.status = "ok"
                  /\ mret.bytes = UploadBytes(last.data)
                  /\ last.data.type = "str" => Utf8Decode(mret.bytes) = last.data.val
                  /\ last.data.type # "str" => mret.bytes = last.data.val

\* a text with a non-ASCII character, written by update_object over an object
\* that existed, has been downloaded, while the bucket holds another object
C20_Witness ==
    /\ mret.op = "download" /\ mret.status = "ok"
    /\ written[mret.key].op = "update" /\ written[mret.key].replaced
    /\ written[mret.key].data.type = "str"
    /\ mret.bytes # written[mret.key].data.val
    /\ Cardinality(objects) = Cardinality(ObjectKeys)

\* the bucket a bucket call was made on
CallBucket(ret) == ret.key[1]

\* what create_bucket and bucket_exists do, as C21 states it
BucketCreateAndExists ==
    /\ mret'.op = "create_bucket" =>
          /\ mret'.status = "True" <=> CallBucket(mret') \notin buckets
          /\ CallBucket(mret') \in buckets'
          /\ buckets' \ {CallBucket(mret')} = buckets \ {CallBucket(mret')}
    /\ mret'.op = "bucket_exists" =>
          /\ mret'.status = "True" <=> CallBucket(mret') \in buckets
          /\ buckets' = buckets

RowsAt(rows, sel) == [j \in 1..Len(sel) |-> rows[sel[j] + 1]]

\* C22: every pull of a pass yields the rows at the indices selected for the
\* batch, in their order, also when the span of the chunk does not begin at
\* global index 0: every batch yielded holds the selected rows, and no pull
\* ends in an error instead of yielding them.
C22_BatchHoldsSelectedRows ==
    reader.state = "open" /\ conv.pc = "done" /\ Started(iter) =>
        /\ \A k \in 1..Len(iter.out) : iter.out[k] = RowsAt(conv.rows, iter.sel[k])
        /\ iter.pc # "failed"

IsArrangement(s, n) ==
    /\ Len(s) = n
    /\ \A i \in 0..(n - 1) : \E j \in 1..n : s[j] = i

\* the index lists of the batches generator it has still to yield
Remaining(it, r, d) ==
    LET all == Drain(it, r, d).sel
    IN SubSeq(all, Len(it.sel) + 1, Len(all))

\* C24: an iteration can be started before, during or after another one on the
\* same instance.  An iteration started while the instance already has a
\* generator, whatever that one has done, ends by exhaustion having selected
\* each of the sample_count positions once; and a step of one generator leaves
\* the batches the other generator has still to select as they were.
C24_FreshIterationFullPass ==
    /\ [](reader.state = "open" /\ conv.pc = "done" =>
            (Finished(iter2) =>
                iter2.pc = "exhausted" /\ IsArrangement(Flatten(iter2.sel), Len(conv.rows))))
    /\ [][/\ iter2' # iter2 /\ iter.pc = "suspended" /\ reader.state = "open"
          => Remaining(iter, reader', dir') = Remaining(iter, reader, dir)]_vars
    /\ [][/\ iter' # iter /\ iter2.pc = "suspended" /\ reader.state = "open"
          => Remaining(iter2, reader', dir') = Remaining(iter2, reader, dir)]_vars

\* the dataset is one shard and the instance reads it as one chunk
SingleChunk(r) == Len(r.shards) = 1 /\ r.chunk_size >= r.length

\* C25: an instance over a one-shard dataset with chunk_size >= sample_count
\* reads correctly.  __getitem__(idx) returns the idx-th written row for every
\* idx in range (as computed for every idx, and as returned by the last call);
\* no pull of a pass fails, every yielded batch holds the rows at the positions
\* it selected, in their order; and a complete pass, shuffled or not, has
\* selected every position exactly once, in the order of its arrangement.
C25_SingleChunkReadsAreCorrect ==
    reader.state = "open" /\ conv.pc = "done" /\ SingleChunk(reader) =>
        /\ \A idx \in 0..(reader.length - 1) :
              GetItemResult(reader, dir, idx) =
                  Ret("getitem", idx, 0, "ok", <<conv.rows[idx + 1]>>, 1)
        /\ (result.op = "getitem" /\ ~OutOfRange(result.arg, reader.length)) =>
              result.status = "ok" /\ result.rows = <<conv.rows[result.arg + 1]>>
        /\ iter.pc # "failed"
        /\ \A k \in 1..Len(iter.out) : iter.out[k] = RowsAt(conv.rows, iter.sel[k])
        /\ iter.pc = "exhausted" =>
              /\ Flatten(iter.sel) = iter.indices
              /\ IsArrangement(iter.indices, Len(conv.rows))
              /\ Flatten(iter.out) = RowsAt(conv.rows, iter.indices)

\* a shuffled pass over a two-row shard ended after one batch that selected
\* the rows in the order 1, 0, and a __getitem__(1) followed it
C25_Witness ==
    /\ reader.state = "open" /\ conv.pc = "done" /\ SingleChunk(reader)
    /\ reader.length = 2 /\ reader.batch_size = 2 /\ reader.shuffle
    /\ iter.pc = "exhausted" /\ iter.sel = << <<1, 0>> >>
    /\ result.op = "getitem" /\ result.arg = 1 /\ result.status = "ok"

\* the number of positions the first k batches of generator it selected
RECURSIVE SelectedBefore(_, _)
SelectedBefore(it, k) ==
    IF k = 0 THEN 0 ELSE SelectedBefore(it, k - 1) + Len(it.sel[k])

\* the number of batches a pass over n positions yields: the sum over its
\* windows of w positions of ceil(window length / b)
RECURSIVE WindowBatchCount(_, _, _)
WindowBatchCount(n, w, b) ==
    IF n <= 0 THEN 0 ELSE CeilDiv(Min(n, w), b) + WindowBatchCount(n - w, w, b)

\* C26: a pass cuts its arrangement into consecutive windows of chunk_size
\* positions and each window into batches of at most batch_size.  The batches
\* selected so far are consecutive pieces of the arrangement; none is empty,
\* none is longer than batch_size, none spans two windows, and each ends at
\* the end of its window or is batch_size long.  A complete pass has selected
\* every position in exactly one batch, in a number of batches that is the sum
\* over the windows of ceil(window length / batch_size).
C26_WindowsThenBatches ==
    reader.state = "open" /\ Started(iter) =>
        LET w == reader.chunk_size
            b == reader.batch_size
            n == reader.length
        IN /\ IsPrefix(Flatten(iter.sel), iter.indices)
           /\ \A k \in 1..Len(iter.sel) :
                 LET first == SelectedBefore(iter, k - 1)
                     last == SelectedBefore(iter, k) - 1
                 IN /\ Len(iter.sel[k]) >= 1
                    /\ Len(iter.sel[k]) <= b
                    /\ first \div w = last \div w
                    /\ Len(iter.sel[k]) = b \/ (last + 1) % w = 0 \/ last + 1 = n
           /\ iter.pc = "exhausted" =>
                 /\ Flatten(iter.sel) = iter.indices
                 /\ Len(iter.indices) = n
                 /\ Len(iter.sel) = WindowBatchCount(n, w, b)

\* a complete shuffled pass over two rows in two windows of one position:
\* two batches although batch_size is 2
C26_Witness ==
    /\ reader.state = "open" /\ iter.pc = "exhausted" /\ reader.shuffle
    /\ reader.length = 2 /\ reader.chunk_size = 1 /\ reader.batch_size = 2
    /\ iter.sel = << <<1>>, <<0>> >>

\* C27: the instance has one generator of random numbers, seeded at
\* construction.  Its seed never changes; the only step that advances it is
\* the first pull of a shuffled pass, which advances it by exactly one
\* shuffle, and every such pull does; with shuffle off it is never advanced.
\* The k-th pass of an instance selects and yields what a pass pulled without
\* interruption yields on an instance with the same seed, shuffle flag,
\* batch_size and chunk_size over the same dataset after k - 1 shuffles:
\* __getitem__ calls and the number of batches earlier passes consumed do not
\* enter.
C27_OneShufflePerPass ==
    /\ [][reader.state = "open" /\ reader' # reader =>
            /\ reader' = [reader EXCEPT !.rng = @ + 1]
            /\ reader.shuffle /\ iter.pc = "created" /\ iter'.pc # "created"]_vars
    /\ [][reader.state = "open" /\ iter.pc = "created" /\ iter' # iter /\ reader.shuffle =>
            reader'.rng = reader.rng + 1]_vars
    /\ [](reader.state = "open" =>
            /\ ~reader.shuffle => reader.rng = 0
            /\ Started(iter) =>
                  LET k == IF reader.shuffle THEN reader.rng ELSE 1
                      alone == FullPass(reader, dir, k - 1)
                  IN /\ iter.indices = PassIndices(reader, k - 1)
                     /\ IsPrefix(iter.out, alone.out) /\ IsPrefix(iter.sel, alone.sel)
                     /\ Finished(iter) => iter.out = alone.out /\ iter.pc = alone.pc)

\* the second shuffled pass of an instance ran to its end over the arrangement
\* 1, 0, and a __getitem__ followed
C27_Witness ==
    /\ reader.state = "open" /\ reader.shuffle /\ reader.rng = 2
    /\ iter.pc = "exhausted" /\ iter.indices = <<1, 0>>
    /\ result.op = "getitem" /\ result.status = "ok"

\* the instance r would be had it been constructed with these arguments
Constructed(r, cs, bs, sh, seed) ==
    [r EXCEPT !.chunk_size = cs, !.batch_size = bs, !.shuffle = sh,
              !.seed = IF sh THEN seed ELSE 0, !.rng = 0]

\* C28: what __getitem__(idx) returns depends on the directory and on idx
\* only: an instance constructed over the same directory with any other
\* chunk_size, batch_size, shuffle and seed returns the same sample, or raises
\* the same error, for every idx.
C28_GetItemIgnoresConstructorArgs ==
    reader.state = "open" =>
        \A idx \in GetItemArgs, cs \in 1..MaxChunk, bs \in 1..MaxBatch,
           sh \in BOOLEAN, seed \in 0..MaxSeed :
            LET other == GetItemResult(Constructed(reader, cs, bs, sh, seed), dir, idx)
                mine == GetItemResult(reader, dir, idx)
            IN other.status = mine.status /\ other.rows = mine.rows

\* C29: of the create_bucket calls that several clients make concurrently for
\* a bucket that is absent, none raises, and once all have returned exactly
\* one has returned True and every other one False.
C29_ExactlyOneCreateSucceeds ==
    /\ \A c \in Clients : calls[c].ret # "S3Error"
    /\ (\A c \in Clients : calls[c].pc = "returned") =>
          /\ Cardinality({c \in Clients : calls[c].ret = "True"}) = 1
          /\ \A c \in Clients : calls[c].ret \in {"True", "False"}

\* the names of the files the directory holds
Present(d) == {f \in FileNames : d[f].kind # "absent"}

\* the uncompressed shard files the directory holds
PresentParquet(d) == {f \in Present(d) : f.stem = "shard" /\ ~EndsWithZstd(f)}

\* C30: a conversion into a directory that was absent or empty, once it has
\* completed, leaves exactly the shard files its manifest lists plus
\* index.json, every listed shard being there and complete.  With zstd no
\* uncompressed shard file is left: while the conversion runs the only
\* uncompressed shard file in the directory is that of the shard being
\* compressed, from its write to the end of its compression step.
C30_DirectoryHoldsListedFilesOnly ==
    nconv = 1 =>
        /\ conv.pc = "done" =>
              /\ Present(dir) = Elems(WrittenManifest.shards) \cup {IndexName}
              /\ Len(WrittenManifest.shards) = Cardinality(Elems(WrittenManifest.shards))
              /\ \A f \in Elems(WrittenManifest.shards) : FileComplete(dir[f])
              /\ conv.compression = "zstd" => PresentParquet(dir) = {}
        /\ (conv.compression = "zstd" /\ conv.pc # "failed") =>
              PresentParquet(dir) =
                  IF conv.pc \in {"compress", "remove"}
                  THEN {ShardName(conv.i \div conv.chunk_size)}
                  ELSE {}

\* a first conversion of three rows with zstd is complete: two .zstd shards
\* and index.json, nothing else
C30_Witness ==
    /\ nconv = 1 /\ conv.pc = "done" /\ conv.compression = "zstd"
    /\ Len(conv.rows) = 3
    /\ Cardinality(Present(dir)) = 3

====
